---- MODULE Spec2Model ----
(***************************************************************************)
(* Model of the codebase-to-prompt scripts.                                *)
(*                                                                         *)
(*   scrape_api_only_PYTHON.py  process_file: read a source file, parse    *)
(*       it, remove docstrings, replace function bodies by `pass`,         *)
(*       unparse, overwrite the file.                       (Spec)         *)
(*   files_only.py / app.py     extract_codebase_content: walk a directory *)
(*       tree and concatenate one labeled section per file.  (WalkSpec)    *)
(*                                                                         *)
(* A source text is a sequence of lines; a line carries its indentation    *)
(* depth and the statement header written on it.  A syntax tree node is a  *)
(* record [kind, sig, body]: `body` is the statement list of a compound    *)
(* statement (empty for a simple statement) and `sig` holds everything     *)
(* else the node carries (name, parameters, decorators, bases; for a       *)
(* simple statement the identifier or literal it consists of).             *)
(***************************************************************************)
EXTENDS Naturals, Sequences, FiniteSets

\* ------------------------------------------------------------------ bounds
\* Largest number of statements / lines of an initial source file.
MaxNodes == 4

\* ------------------------------------------------------------- node kinds
FuncKinds == {"FunctionDef", "AsyncFunctionDef"}
DefKinds == FuncKinds \cup {"ClassDef"}
\* "If" stands for the compound statements that are neither function nor
\* class definitions (if, for, while, with, try): a header and a body.
CompoundKinds == DefKinds \cup {"If"}
\* "Str" is an expression statement wrapping a literal text constant,
\* "Assign" any other simple statement.
SimpleKinds == {"Pass", "Str", "Assign"}

NoSig == [name |-> 0, args |-> <<>>, decorator_list |-> <<>>, bases |-> <<>>]

\* The signature carried by the i-th statement of a body in an initial
\* source file: statements are told apart by `name`; every other definition
\* is decorated, every other class has a base.
SigOf(kind, i) ==
  CASE kind \in FuncKinds ->
         [name |-> i, args |-> <<"x">>,
          decorator_list |-> IF i % 2 = 0 THEN <<"dec">> ELSE <<>>,
          bases |-> <<>>]
    [] kind = "ClassDef" ->
         [name |-> i, args |-> <<>>,
          decorator_list |-> IF i % 2 = 0 THEN <<"dec">> ELSE <<>>,
          bases |-> IF i % 2 = 1 THEN <<"Base">> ELSE <<>>]
    [] kind \in {"Str", "Assign"} -> [NoSig EXCEPT !.name = i]
    [] OTHER -> NoSig

Node(kind, sig, body) == [kind |-> kind, sig |-> sig, body |-> body]

\* ast.Pass()
PassStmt == Node("Pass", NoSig, <<>>)

\* ast.Module(body)
Module(body) == Node("Module", NoSig, body)

\* ------------------------------------------------------ initial sources
RECURSIVE Shapes(_)
RECURSIVE ShapeTrees(_)
\* Statement lists of exactly n statements (nested ones counted), every
\* compound statement with a non-empty body; signatures not yet assigned.
Shapes(n) ==
  IF n = 0 THEN {<<>>}
  ELSE UNION {{<<t>> \o rest : t \in ShapeTrees(k), rest \in Shapes(n - k)} :
              k \in 1..n}

ShapeTrees(k) ==
  IF k = 1 THEN {Node(kd, NoSig, <<>>) : kd \in SimpleKinds}
  ELSE {Node(kd, NoSig, b) : kd \in CompoundKinds, b \in Shapes(k - 1)}

RECURSIVE Named(_)
Named(body) ==
  [i \in 1..Len(body) |->
     Node(body[i].kind, SigOf(body[i].kind, i), Named(body[i].body))]

ValidBodies == UNION {{Named(b) : b \in Shapes(n)} : n \in 0..MaxNodes}
ShortBodies == UNION {{Named(b) : b \in Shapes(n)} : n \in 0..(MaxNodes - 1)}

Line(indent, kind, sig) == [indent |-> indent, kind |-> kind, sig |-> sig]
CommentLine == Line(0, "Comment", NoSig)
\* A line that is not syntactically valid (e.g. unbalanced parentheses).
MalformedLine == Line(0, "Malformed", NoSig)

\* ---------------------------------------------------------- ast.unparse
RECURSIVE unparse_body(_, _)
\* One line per statement header, the body one level deeper.  A compound
\* statement whose body is empty is written as its header alone.
unparse_body(body, indent) ==
  IF body = <<>> THEN <<>>
  ELSE <<Line(indent, body[1].kind, body[1].sig)>>
         \o unparse_body(body[1].body, indent + 1)
         \o unparse_body(Tail(body), indent)

unparse(tree) == unparse_body(tree.body, 0)

\* ------------------------------------------------------------ ast.parse
IsCode(line) == line.kind # "Comment"

RECURSIVE parse_block(_, _, _)
\* Parses the statements at depth `indent` from line i on: [ok, body, next].
parse_block(lines, i, indent) ==
  IF i > Len(lines) \/ lines[i].indent < indent
  THEN [ok |-> TRUE, body |-> <<>>, next |-> i]
  ELSE IF lines[i].indent > indent \/ lines[i].kind = "Malformed"
  THEN [ok |-> FALSE, body |-> <<>>, next |-> i]
  ELSE IF lines[i].kind \in CompoundKinds
  THEN LET sub == parse_block(lines, i + 1, indent + 1) IN
       IF ~sub.ok \/ sub.body = <<>>
       THEN [ok |-> FALSE, body |-> <<>>, next |-> i]
       ELSE LET rest == parse_block(lines, sub.next, indent) IN
            [ok |-> rest.ok,
             body |-> <<Node(lines[i].kind, lines[i].sig, sub.body)>> \o rest.body,
             next |-> rest.next]
  ELSE LET rest == parse_block(lines, i + 1, indent) IN
       [ok |-> rest.ok,
        body |-> <<Node(lines[i].kind, lines[i].sig, <<>>)>> \o rest.body,
        next |-> rest.next]

\* [ok, tree]: comments are dropped by the tokenizer; ok = FALSE is the
\* SyntaxError raised by ast.parse.
parse(source) ==
  LET lines == SelectSeq(source, IsCode)
      r == parse_block(lines, 1, 0)
  IN [ok |-> r.ok /\ r.next = Len(lines) + 1, tree |-> Module(r.body)]

\* ---------------------------------------------------- remove_docstrings
\* Variant: the module is not among the node kinds whose docstring is removed.
DocstringOwners_NoModule == {"FunctionDef", "AsyncFunctionDef", "ClassDef"}

DocstringOwners == {"FunctionDef", "AsyncFunctionDef", "ClassDef", "Module"}

IsDocstring(stmt) == stmt.kind = "Str"

RECURSIVE remove_docstrings(_)
remove_docstrings(node) ==
  LET body == IF /\ node.kind \in DocstringOwners
                 /\ node.body # <<>>
                 /\ IsDocstring(node.body[1])
              THEN Tail(node.body)
              ELSE node.body
  IN [node EXCEPT !.body = [i \in 1..Len(body) |-> remove_docstrings(body[i])]]

\* -------------------------------------------------- FunctionBodyRemover
RECURSIVE visit(_)

\* Variant: the node is rebuilt from its name and parameters, the decorators lost.
visit_FunctionDef_NoDecorators(node) ==
  [node EXCEPT !.body = <<PassStmt>>, !.sig.decorator_list = <<>>]

\* Variant: the placeholder is a literal-text expression statement.
visit_FunctionDef_TextPlaceholder(node) ==
  [node EXCEPT !.body = <<Node("Str", NoSig, <<>>)>>]

visit_FunctionDef(node) == [node EXCEPT !.body = <<PassStmt>>]

visit_AsyncFunctionDef(node) == [node EXCEPT !.body = <<PassStmt>>]

\* Variant: every child statement of the class is visited.
visit_ClassDef_AllChildren(node) ==
  [node EXCEPT !.body = [i \in 1..Len(node.body) |-> visit(node.body[i])]]

visit_ClassDef(node) ==
  [node EXCEPT !.body =
     [i \in 1..Len(node.body) |->
        IF node.body[i].kind \in FuncKinds
        THEN visit(node.body[i])
        ELSE node.body[i]]]

\* ast.NodeTransformer.generic_visit: visit every child statement.
generic_visit(node) ==
  [node EXCEPT !.body = [i \in 1..Len(node.body) |-> visit(node.body[i])]]

visit(node) ==
  CASE node.kind = "FunctionDef" -> visit_FunctionDef(node)
    [] node.kind = "AsyncFunctionDef" -> visit_AsyncFunctionDef(node)
    [] node.kind = "ClassDef" -> visit_ClassDef(node)
    [] OTHER -> generic_visit(node)

\* ------------------------------------------- extract_codebase_content
\* File and directory names are sequences of characters.
N_src == <<"s", "r", "c">>
N_Mocks == <<"M", "o", "c", "k", "s">>
N_git == <<".", "g", "i", "t">>
N_cache == <<".", "c", "a", "c", "h", "e">>
N_build == <<"b", "u", "i", "l", "d">>
N_install == <<"i", "n", "s", "t", "a", "l", "l">>
N_a_py == <<"a", ".", "p", "y">>
N_Latest_py == <<"L", "a", "T", "e", "s", "t", ".", "p", "y">>
N_codebase_content_txt ==
  <<"c", "o", "d", "e", "b", "a", "s", "e", "_",
    "c", "o", "n", "t", "e", "n", "t", ".", "t", "x", "t">>
M_test == <<"t", "e", "s", "t">>
M_mock == <<"m", "o", "c", "k">>

\* Largest number of entries (files and directories) below the root.
MaxEntries == 3

DirNames == {N_src, N_Mocks, N_build}
FileNames == {N_a_py, N_Latest_py, N_codebase_content_txt}

\* str.lower on one character (of the alphabet the names use).
LowerChar(c) ==
  CASE c = "L" -> "l"
    [] c = "M" -> "m"
    [] c = "T" -> "t"
    [] OTHER -> c

\* str.lower
lower(name) == [i \in 1..Len(name) |-> LowerChar(name[i])]

\* sub in s
Contains(sub, s) ==
  \E i \in 1..(Len(s) + 1 - Len(sub)) : SubSeq(s, i, i + Len(sub) - 1) = sub

File(name, readable) ==
  [name |-> name, readable |-> readable, content |-> <<name>>]
Dir(name, files, dirs) == [name |-> name, files |-> files, dirs |-> dirs]

DistinctNames(entries) ==
  \A i, j \in 1..Len(entries) : i # j => entries[i].name # entries[j].name

RECURSIVE FileSeqs(_)
\* Directory listings of k files.
FileSeqs(k) ==
  IF k = 0 THEN {<<>>}
  ELSE {l \in {<<File(n, r)>> \o rest :
                 n \in FileNames, r \in BOOLEAN, rest \in FileSeqs(k - 1)} :
          DistinctNames(l)}

RECURSIVE DirSeqs(_)
RECURSIVE Contents(_)
\* Listings of subdirectories holding m entries in all, themselves counted.
DirSeqs(m) ==
  IF m = 0 THEN {<<>>}
  ELSE {l \in UNION {{<<Dir(n, c.files, c.dirs)>> \o rest :
                        n \in DirNames, c \in Contents(k - 1), rest \in DirSeqs(m - k)} :
                     k \in 1..m} :
          DistinctNames(l)}

\* What a directory holding n entries can hold: [files, dirs].
Contents(n) ==
  UNION {{[files |-> f, dirs |-> d] : f \in FileSeqs(k), d \in DirSeqs(n - k)} :
         k \in 0..n}

Roots ==
  UNION {{Dir(<<>>, c.files, c.dirs) : c \in Contents(n)} : n \in 0..MaxEntries}

\* files_only.py, lines 10-14: dirnames[:] = [...]
ExcludedDirs == {N_git, N_cache, N_build, N_install}

HasMarker(name) == Contains(M_test, lower(name)) \/ Contains(M_mock, lower(name))

\* Variant: both filters sit under "if not include_tests".
IsKeptDir_ExclusionsOnlyWithoutTests(d, script, tests) ==
  \/ script = "app"
  \/ ~tests => (d.name \notin ExcludedDirs /\ ~HasMarker(d.name))

IsKeptDir(d, script, tests) ==
  \/ script = "app"
  \/ /\ d.name \notin ExcludedDirs
     /\ (~tests => ~HasMarker(d.name))

\* files_only.py, line 19: the files the loop skips.
IsSkippedFile(filename, script, tests) ==
  /\ script = "files_only"
  /\ \/ (~tests /\ HasMarker(filename))
     \/ filename = N_codebase_content_txt

\* f"## {relative_path}\n\n{file_content}\n", as a sequence of tokens
Section(relative_path, file_content) ==
  << [tok |-> "##", text |-> relative_path],
     [tok |-> "nl", text |-> <<>>],
     [tok |-> "nl", text |-> <<>>],
     [tok |-> "content", text |-> file_content],
     [tok |-> "nl", text |-> <<>>] >>

RECURSIVE Join(_)
\* "\n".join(codebase_content)
Join(sections) ==
  IF sections = <<>> THEN <<>>
  ELSE IF Len(sections) = 1 THEN sections[1]
  ELSE sections[1] \o <<[tok |-> "nl", text |-> <<>>]>> \o Join(Tail(sections))

\* --------------------------------------------------------- process_file
VARIABLES
  file,             \* content of the file at file_path
  pc,               \* position in process_file
  source_code,      \* process_file's local: the text read
  parsed_ast,       \* the tree, mutated in place by the two passes
  cleaned_code,     \* the text returned by the transformation
  stdout,           \* number of status lines printed by this invocation
  previous_output,  \* how the previous invocation ended and what it wrote
  write_opens,      \* times this invocation opened the file for writing
  \* extract_codebase_content and the script around it
  root,             \* the directory tree below root_dir
  script,           \* "files_only" or "app"
  include_tests,    \* files_only.py's --include-tests flag
  wpc,              \* position in the script
  walk_stack,       \* directories os.walk has still to yield, next first
  dirpath,          \* the directory being listed, relative to root_dir
  filenames,        \* its files still to be handled by the inner loop
  codebase_content, \* the sections appended so far
  error_log,        \* files reported by "Error reading ..."
  output,           \* the returned, joined text
  output_file       \* content of codebase_content.txt in the working directory

stripVars == <<file, pc, source_code, parsed_ast, cleaned_code, stdout,
               previous_output, write_opens>>
walkVars == <<root, script, include_tests, wpc, walk_stack, dirpath, filenames,
              codebase_content, error_log, output, output_file>>
vars == <<stripVars, walkVars>>

NoTree == Module(<<>>)
NoOutput == [status |-> "none", text |-> <<>>]

Sources ==
  {unparse(Module(b)) : b \in ValidBodies}
    \cup {<<CommentLine>> \o unparse(Module(b)) : b \in ShortBodies}
    \cup {unparse(Module(b)) \o <<MalformedLine>> : b \in ShortBodies}

EmptyRoot == Dir(<<>>, <<>>, <<>>)

\* The directory script is not running.
WalkIdle ==
  /\ root = EmptyRoot
  /\ script = "files_only"
  /\ include_tests = FALSE
  /\ wpc = "idle"
  /\ walk_stack = <<>>
  /\ dirpath = <<>>
  /\ filenames = <<>>
  /\ codebase_content = <<>>
  /\ error_log = <<>>
  /\ output = <<>>
  /\ output_file = <<>>

\* Variant: the file is opened for reading and writing with mode "w+",
\* which truncates it before it is read back.
ReadFile_Truncating ==
  /\ pc = "start"
  /\ source_code' = file
  /\ file' = <<>>
  /\ write_opens' = write_opens + 1
  /\ pc' = "read"
  /\ UNCHANGED <<parsed_ast, cleaned_code, stdout, previous_output>>
  /\ UNCHANGED walkVars

Init ==
  /\ file \in Sources
  /\ pc = "start"
  /\ source_code = <<>>
  /\ parsed_ast = NoTree
  /\ cleaned_code = <<>>
  /\ stdout = 0
  /\ previous_output = NoOutput
  /\ write_opens = 0
  /\ WalkIdle

\* with open(file_path, "r") as f: source_code = f.read()
ReadFile ==
  /\ pc = "start"
  /\ source_code' = file
  /\ pc' = "read"
  /\ UNCHANGED <<file, parsed_ast, cleaned_code, stdout, previous_output, write_opens>>
  /\ UNCHANGED walkVars

\* parsed_ast = ast.parse(source)
Parse ==
  /\ pc = "read"
  /\ parse(source_code).ok
  /\ parsed_ast' = parse(source_code).tree
  /\ pc' = "parsed"
  /\ UNCHANGED <<file, source_code, cleaned_code, stdout, previous_output, write_opens>>
  /\ UNCHANGED walkVars

\* ast.parse raises SyntaxError: it propagates out of process_file.
ParseError ==
  /\ pc = "read"
  /\ ~parse(source_code).ok
  /\ pc' = "failed"
  /\ UNCHANGED <<file, source_code, parsed_ast, cleaned_code, stdout, previous_output, write_opens>>
  /\ UNCHANGED walkVars

\* remove_docstrings(parsed_ast)
RemoveDocstrings ==
  /\ pc = "parsed"
  /\ parsed_ast' = remove_docstrings(parsed_ast)
  /\ pc' = "docstrings_removed"
  /\ UNCHANGED <<file, source_code, cleaned_code, stdout, previous_output, write_opens>>
  /\ UNCHANGED walkVars

\* FunctionBodyRemover().visit(parsed_ast)
RemoveBodies ==
  /\ pc = "docstrings_removed"
  /\ parsed_ast' = visit(parsed_ast)
  /\ pc' = "bodies_removed"
  /\ UNCHANGED <<file, source_code, cleaned_code, stdout, previous_output, write_opens>>
  /\ UNCHANGED walkVars

\* cleaned_code = ast.unparse(parsed_ast); return cleaned_code
Unparse ==
  /\ pc = "bodies_removed"
  /\ cleaned_code' = unparse(parsed_ast)
  /\ pc' = "transformed"
  /\ UNCHANGED <<file, source_code, parsed_ast, stdout, previous_output, write_opens>>
  /\ UNCHANGED walkVars

\* open(file_path, "w") truncates the file.
OpenForWrite ==
  /\ pc = "transformed"
  /\ file' = <<>>
  /\ write_opens' = write_opens + 1
  /\ pc' = "opened"
  /\ UNCHANGED <<source_code, parsed_ast, cleaned_code, stdout, previous_output>>
  /\ UNCHANGED walkVars

\* f.write(cleaned_code)
WriteFile ==
  /\ pc = "opened"
  /\ file' = cleaned_code
  /\ pc' = "written"
  /\ UNCHANGED <<source_code, parsed_ast, cleaned_code, stdout, previous_output, write_opens>>
  /\ UNCHANGED walkVars

\* print(f"Comments, docstrings, and function bodies removed from ...")
PrintStatus ==
  /\ pc = "written"
  /\ stdout' = stdout + 1
  /\ pc' = "done"
  /\ UNCHANGED <<file, source_code, parsed_ast, cleaned_code, previous_output, write_opens>>
  /\ UNCHANGED walkVars

\* The script is run again on the file it left behind.
Reinvoke ==
  /\ pc \in {"done", "failed"}
  /\ previous_output' = IF pc = "done"
                        THEN [status |-> "written", text |-> file]
                        ELSE [status |-> "failed", text |-> <<>>]
  /\ pc' = "start"
  /\ source_code' = <<>>
  /\ parsed_ast' = NoTree
  /\ cleaned_code' = <<>>
  /\ stdout' = 0
  /\ write_opens' = 0
  /\ UNCHANGED file
  /\ UNCHANGED walkVars

Next ==
  \/ ReadFile
  \/ Parse
  \/ ParseError
  \/ RemoveDocstrings
  \/ RemoveBodies
  \/ Unparse
  \/ OpenForWrite
  \/ WriteFile
  \/ PrintStatus
  \/ Reinvoke

Spec == Init /\ [][Next]_vars

\* ------------------------------------------------ files_only.py, app.py
\* The source-stripping script is not running.
StripIdle ==
  /\ file = <<>>
  /\ pc = "idle"
  /\ source_code = <<>>
  /\ parsed_ast = NoTree
  /\ cleaned_code = <<>>
  /\ stdout = 0
  /\ previous_output = NoOutput
  /\ write_opens = 0

WalkInit ==
  /\ root \in Roots
  /\ \/ script = "files_only" /\ include_tests \in BOOLEAN
     \/ script = "app" /\ include_tests = FALSE
  /\ wpc = "walk"
  /\ walk_stack = <<[path |-> <<>>, dir |-> root]>>
  /\ dirpath = <<>>
  /\ filenames = <<>>
  /\ codebase_content = <<>>
  /\ error_log = <<>>
  /\ output = <<>>
  /\ output_file = <<>>
  /\ StripIdle

\* for dirpath, dirnames, filenames in os.walk(root_dir): the next directory
\* is yielded, its dirnames are filtered in place, and os.walk will descend
\* into what is left of them, in order, before any directory yielded later.
NextDirectory ==
  /\ wpc = "walk"
  /\ filenames = <<>>
  /\ walk_stack # <<>>
  /\ LET top == Head(walk_stack)
         kept(d) == IsKeptDir(d, script, include_tests)
         dirnames == SelectSeq(top.dir.dirs, kept)
         below == [i \in 1..Len(dirnames) |->
                     [path |-> Append(top.path, dirnames[i].name),
                      dir |-> dirnames[i]]]
     IN /\ walk_stack' = below \o Tail(walk_stack)
        /\ dirpath' = top.path
        /\ filenames' = top.dir.files
  /\ UNCHANGED <<root, script, include_tests, wpc, codebase_content, error_log,
                 output, output_file>>
  /\ UNCHANGED stripVars

\* line 19-20: continue
SkipFile ==
  /\ wpc = "walk"
  /\ filenames # <<>>
  /\ IsSkippedFile(Head(filenames).name, script, include_tests)
  /\ filenames' = Tail(filenames)
  /\ UNCHANGED <<root, script, include_tests, wpc, walk_stack, dirpath,
                 codebase_content, error_log, output, output_file>>
  /\ UNCHANGED stripVars

\* The file is read and its labeled section appended.
ReadAndAppend ==
  /\ wpc = "walk"
  /\ filenames # <<>>
  /\ ~IsSkippedFile(Head(filenames).name, script, include_tests)
  /\ Head(filenames).readable
  /\ codebase_content' =
       Append(codebase_content,
              Section(Append(dirpath, Head(filenames).name), Head(filenames).content))
  /\ filenames' = Tail(filenames)
  /\ UNCHANGED <<root, script, include_tests, wpc, walk_stack, dirpath, error_log,
                 output, output_file>>
  /\ UNCHANGED stripVars

\* Variant: the failure ends the walk (the except clause leaves both loops).
ReadFails_EndsWalk ==
  /\ wpc = "walk"
  /\ filenames # <<>>
  /\ ~IsSkippedFile(Head(filenames).name, script, include_tests)
  /\ ~Head(filenames).readable
  /\ error_log' = Append(error_log, Append(dirpath, Head(filenames).name))
  /\ filenames' = <<>>
  /\ walk_stack' = <<>>
  /\ UNCHANGED <<root, script, include_tests, wpc, dirpath, codebase_content,
                 output, output_file>>
  /\ UNCHANGED stripVars

\* open or read raises: except Exception as e: print(f"Error reading ...")
ReadFails ==
  /\ wpc = "walk"
  /\ filenames # <<>>
  /\ ~IsSkippedFile(Head(filenames).name, script, include_tests)
  /\ ~Head(filenames).readable
  /\ error_log' = Append(error_log, Append(dirpath, Head(filenames).name))
  /\ filenames' = Tail(filenames)
  /\ UNCHANGED <<root, script, include_tests, wpc, walk_stack, dirpath,
                 codebase_content, output, output_file>>
  /\ UNCHANGED stripVars

\* return "\n".join(codebase_content)
ReturnJoined ==
  /\ wpc = "walk"
  /\ filenames = <<>>
  /\ walk_stack = <<>>
  /\ output' = Join(codebase_content)
  /\ wpc' = "returned"
  /\ UNCHANGED <<root, script, include_tests, walk_stack, dirpath, filenames,
                 codebase_content, error_log, output_file>>
  /\ UNCHANGED stripVars

\* with open("codebase_content.txt", "w") as output_file: output_file.write(output)
WriteOutput ==
  /\ wpc = "returned"
  /\ output_file' = output
  /\ wpc' = "done"
  /\ UNCHANGED <<root, script, include_tests, walk_stack, dirpath, filenames,
                 codebase_content, error_log, output>>
  /\ UNCHANGED stripVars

WalkNext ==
  \/ NextDirectory
  \/ SkipFile
  \/ ReadAndAppend
  \/ ReadFails
  \/ ReturnJoined
  \/ WriteOutput

WalkSpec == WalkInit /\ [][WalkNext]_vars

\* ================================================================ claims
\* The tree as parsed from the text this invocation read.
InputTree == parse(source_code).tree

\* The positions at which parsed_ast is the fully transformed tree.
AfterTransform == {"bodies_removed", "transformed", "opened", "written", "done"}

StartsWithText(body) == body # <<>> /\ body[1].kind = "Str"

\* C1: idempotence: the text written by one invocation is accepted by the
\* next invocation, which writes the same text again.
Idempotent ==
  previous_output.status = "written" =>
    /\ pc # "failed"
    /\ pc = "done" => file = previous_output.text

RECURSIVE FunctionsReplaced(_, _)
\* Every function definition of `body` that is not inside a nested class has
\* the placeholder as its whole body (inClass: `body` lies inside a class).
FunctionsReplaced(body, inClass) ==
  \A i \in 1..Len(body) :
    CASE body[i].kind \in FuncKinds -> body[i].body = <<PassStmt>>
      [] body[i].kind = "ClassDef" -> inClass \/ FunctionsReplaced(body[i].body, TRUE)
      [] body[i].kind = "If" -> FunctionsReplaced(body[i].body, inClass)
      [] OTHER -> TRUE

\* C2: in the transformed tree every function definition outside nested
\* classes (module level, method of a top-level class, inside a compound
\* statement of a module or class body) has exactly the placeholder as body.
AllFunctionBodiesReplaced ==
  pc \in AfterTransform => FunctionsReplaced(parsed_ast.body, FALSE)

\* C3 as stated: a module that starts with a docstring is transformed into a
\* module that does not start with a literal-text expression statement.
NoLeadingTextAtModuleScope ==
  (pc \in AfterTransform /\ StartsWithText(InputTree.body)) =>
    ~StartsWithText(parsed_ast.body)

\* C3 amended: a module that starts with a docstring loses exactly that one
\* statement: the transformed module body is the input's without its first
\* statement, each remaining statement keeping its kind and header, so it
\* starts with a literal-text expression statement exactly when the
\* statement that followed the docstring was one.
OnlyTheModuleDocstringRemoved ==
  (pc \in AfterTransform /\ StartsWithText(InputTree.body)) =>
    LET before == InputTree.body
        after == parsed_ast.body
    IN /\ Len(after) = Len(before) - 1
       /\ \A i \in 1..Len(after) :
            /\ after[i].kind = before[i + 1].kind
            /\ after[i].sig = before[i + 1].sig
       /\ StartsWithText(after) <=> (Len(before) >= 2 /\ before[2].kind = "Str")

\* A module docstring followed by a statement that is not a literal text.
ModuleDocstringThenCode ==
  /\ pc = "done"
  /\ StartsWithText(InputTree.body)
  /\ Len(InputTree.body) >= 2
  /\ InputTree.body[2].kind \in {"Assign", "FunctionDef", "ClassDef"}
  /\ file # <<>>

\* C4: the file is opened for writing only once the transformation has
\* returned; when parsing fails the file is never opened for writing, its
\* content is the content that was read, and no status line is printed.
WriteOnlyAfterTransform ==
  /\ pc = "failed" => (write_opens = 0 /\ file = source_code /\ stdout = 0)
  /\ pc \in {"read", "parsed", "docstrings_removed", "bodies_removed", "transformed"}
       => (write_opens = 0 /\ file = source_code)
  /\ write_opens > 0 => (parse(source_code).ok /\ cleaned_code = unparse(parsed_ast))

\* A non-empty file that does not parse has been processed.
ParseFailedOnContent ==
  pc = "failed" /\ source_code # <<>> /\ file = source_code

RECURSIVE Corresponds(_, _)
\* The statements of `after` are those of `before` (less a leading docstring),
\* in order, with identical kind and signature; the same holds inside every
\* definition whose body was not replaced by the placeholder.
Corresponds(before, after) ==
  LET kept == IF Len(after) < Len(before) THEN Tail(before) ELSE before IN
  /\ Len(kept) = Len(after)
  /\ \A i \in 1..Len(after) :
       /\ after[i].kind = kept[i].kind
       /\ after[i].sig = kept[i].sig
       /\ after[i].kind \in CompoundKinds =>
            \/ after[i].kind \in FuncKinds /\ after[i].body = <<PassStmt>>
            \/ Corresponds(kept[i].body, after[i].body)

\* C5: every function or class definition of the transformed tree has the
\* name, parameters, decorators and bases of the definition of the input it
\* comes from; only body statement sequences differ.
SignaturesPreserved ==
  pc \in AfterTransform => Corresponds(InputTree.body, parsed_ast.body)

\* A decorated function whose body was replaced is in the output.
DecoratedFunctionStripped ==
  /\ pc = "done"
  /\ \E i \in 1..Len(parsed_ast.body) :
       /\ parsed_ast.body[i].kind \in FuncKinds
       /\ parsed_ast.body[i].sig.decorator_list # <<>>
       /\ \E j \in 1..Len(InputTree.body) :
            /\ InputTree.body[j].sig = parsed_ast.body[i].sig
            /\ InputTree.body[j].body # parsed_ast.body[i].body

\* C8: the two passes commute on every parsed tree.
PassesCommute ==
  pc = "parsed" =>
    visit(remove_docstrings(parsed_ast)) = remove_docstrings(visit(parsed_ast))

\* A method of a nested class whose body is only a docstring, next to which
\* both passes change the tree.
NestedClassMethodOnlyDocstring ==
  /\ pc = "parsed"
  /\ \E i \in 1..Len(parsed_ast.body) :
       /\ parsed_ast.body[i].kind = "ClassDef"
       /\ \E j \in 1..Len(parsed_ast.body[i].body) :
            LET inner == parsed_ast.body[i].body[j] IN
            /\ inner.kind = "ClassDef"
            /\ \E k \in 1..Len(inner.body) :
                 /\ inner.body[k].kind \in FuncKinds
                 /\ inner.body[k].body = <<Node("Str", SigOf("Str", 1), <<>>)>>
  /\ remove_docstrings(parsed_ast) # parsed_ast

RECURSIVE ClassFrame(_, _)
\* In every class the body-replacement pass reaches, each immediate child
\* that is not a function definition is the same in `after` as in `before`.
ClassFrame(before, after) ==
  /\ Len(after) = Len(before)
  /\ \A i \in 1..Len(before) :
       /\ before[i].kind = "ClassDef" =>
            /\ Len(after[i].body) = Len(before[i].body)
            /\ \A j \in 1..Len(before[i].body) :
                 before[i].body[j].kind \notin FuncKinds =>
                   after[i].body[j] = before[i].body[j]
       /\ before[i].kind = "If" => ClassFrame(before[i].body, after[i].body)

RECURSIVE BodiesNonEmpty(_)
BodiesNonEmpty(body) ==
  \A i \in 1..Len(body) :
    body[i].kind \in CompoundKinds =>
      (body[i].body # <<>> /\ BodiesNonEmpty(body[i].body))

\* C10: every definition of the transformed tree has a non-empty body, and
\* the text written is syntactically valid.
OutputValid ==
  /\ pc \in AfterTransform => BodiesNonEmpty(parsed_ast.body)
  /\ pc = "done" => parse(file).ok

\* ------------------------------------------------------ directory walk
RECURSIVE FilesInOrder(_, _)
RECURSIVE FilesBelow(_, _)
\* Every file below directory d (at `path`), a directory's own files before
\* those of its subdirectories: [path, readable].
FilesInOrder(d, path) ==
  [i \in 1..Len(d.files) |->
     [path |-> Append(path, d.files[i].name), readable |-> d.files[i].readable]]
    \o FilesBelow(d.dirs, path)

FilesBelow(dirs, path) ==
  IF dirs = <<>> THEN <<>>
  ELSE FilesInOrder(dirs[1], Append(path, dirs[1].name)) \o FilesBelow(Tail(dirs), path)

Last(seq) == seq[Len(seq)]

\* The inclusion policy of files_only.py, stated on a relative path.
PolicyIncludes(path) ==
  /\ \A i \in 1..(Len(path) - 1) : path[i] \notin {N_git, N_cache, N_build, N_install}
  /\ Last(path) # N_codebase_content_txt
  /\ ~include_tests =>
       \A i \in 1..Len(path) :
         /\ ~Contains(M_test, lower(path[i]))
         /\ ~Contains(M_mock, lower(path[i]))

IsIncluded(entry) == script = "app" \/ PolicyIncludes(entry.path)
IsIncludedReadable(entry) == IsIncluded(entry) /\ entry.readable
IsIncludedUnreadable(entry) == IsIncluded(entry) /\ ~entry.readable

Paths(entries) == [i \in 1..Len(entries) |-> entries[i].path]

IsHeader(token) == token.tok = "##"
\* The paths heading the sections of a joined text, in order.
Headers(text) ==
  LET hs == SelectSeq(text, IsHeader) IN [i \in 1..Len(hs) |-> hs[i].text]

SectionPaths == [i \in 1..Len(codebase_content) |-> codebase_content[i][1].text]

IsPrefix(a, b) == Len(a) <= Len(b) /\ SubSeq(b, 1, Len(a)) = a

\* C6: files_only.py writes exactly one section per included file, headed by
\* its relative path; without --include-tests no path has a component with
\* "test" or "mock" in it; no section lies under .git, .cache, build or
\* install or is for codebase_content.txt; with --include-tests the files
\* and directories with "test" or "mock" in their names are included.
InclusionPolicy ==
  (wpc = "done" /\ script = "files_only") =>
    LET hs == Headers(output_file)
        all == FilesInOrder(root, <<>>)
    IN /\ \A i, j \in 1..Len(hs) : i # j => hs[i] # hs[j]
       /\ {hs[i] : i \in 1..Len(hs)} =
            {all[i].path : i \in {k \in 1..Len(all) :
                                    PolicyIncludes(all[k].path) /\ all[k].readable}}
       /\ \A i \in 1..Len(hs) :
            /\ Last(hs[i]) # N_codebase_content_txt
            /\ \A k \in 1..(Len(hs[i]) - 1) : hs[i][k] \notin ExcludedDirs
            /\ ~include_tests => \A k \in 1..Len(hs[i]) : ~HasMarker(hs[i][k])

\* With --include-tests a file with "test" in its name under a directory
\* with "mock" in its name has a section, while the codebase_content.txt
\* beside that directory has none.
MarkedFileIncluded ==
  /\ wpc = "done"
  /\ script = "files_only"
  /\ include_tests
  /\ \E i \in 1..Len(root.files) : root.files[i].name = N_codebase_content_txt
  /\ Headers(output_file) = << <<N_Mocks, N_Latest_py>> >>

\* C7: a file whose read fails is logged and gets no section; the walk goes
\* on, nothing collected is dropped, and the result has a section for every
\* other included readable file, in walk order.
PartialFailureTolerance ==
  LET all == FilesInOrder(root, <<>>)
      readable == Paths(SelectSeq(all, IsIncludedReadable))
      failing == Paths(SelectSeq(all, IsIncludedUnreadable))
  IN /\ wpc = "walk" => (IsPrefix(SectionPaths, readable) /\ IsPrefix(error_log, failing))
     /\ wpc \in {"returned", "done"} =>
          /\ SectionPaths = readable
          /\ Headers(output) = readable
          /\ error_log = failing
     /\ wpc = "done" => output_file = output

\* A read failed and a file handled after it has its section.
SectionAfterFailure ==
  /\ wpc = "done"
  /\ script = "files_only"
  /\ LET all == SelectSeq(FilesInOrder(root, <<>>), IsIncluded) IN
     \E j, k \in 1..Len(all) :
       /\ j < k
       /\ ~all[j].readable
       /\ all[k].readable
       /\ all[j].path \in {error_log[i] : i \in 1..Len(error_log)}
       /\ all[k].path \in {Headers(output_file)[i] : i \in 1..Len(Headers(output_file))}

====
